---- MODULE Spec2Model ----
(***************************************************************************)
(* Model of the image-serving service: the URL guard and path-segment      *)
(* validation of src/api/endpoints/images.py, the namespace store of       *)
(* src/services/image_hosting.py, the fetch client wrapper of              *)
(* src/services/image_fetcher.py and the bulk proxy endpoint.              *)
(***************************************************************************)
EXTENDS Integers, Sequences, FiniteSets, TLC

VARIABLES
    url,          \* guard harness: the URL under validation
    verdict,      \* guard harness: "pending" | "ok" | "rejected"
    dirs,         \* namespace directories existing under IMAGES_DIR
    files,        \* image files: [dir, id, ext, dims]
    nextId,       \* number of image ids generated so far
    response,     \* the last completed HTTP response, with the I/O of its request
    call,         \* the POST /fetch request suspended in fetch_image, or NoCall
    batch,        \* the POST /{namespace}/proxy request in flight, or NoBatch
    pc,           \* per _proxy_one task: "new" | "waiting" | "fetching" | a terminal stage
    sem,          \* value of the asyncio.Semaphore of the batch
    result_urls,  \* the result_urls dict of the batch: source URL -> image id
    fetched,      \* fetch harness: the last fetch_image call and what it returned
    resized,      \* normalizer harness: the last resize call and what it produced
    _client,      \* image_fetcher._client: 0 (None) or the number of the client
    clients,      \* per constructed client: how many aclose() calls it received
    tasks         \* client harness: the coroutines using fetch_image and close_client

clientVars == <<resized, _client, clients, tasks>>

serviceVars == <<url, verdict, dirs, files, nextId, response, call, batch, pc, sem,
                 result_urls, fetched>>

vars == <<url, verdict, dirs, files, nextId, response, call, batch, pc, sem,
          result_urls, fetched, resized, _client, clients, tasks>>

(***************************************************************************)
(* Strings.  A path segment is a sequence of characters; words whose       *)
(* spelling does not matter (scheme, DNS labels) are TLA+ strings.         *)
(***************************************************************************)
MaxSegLen == 2

Chars == {"a", ".", "/"}

Segments == UNION {[1..n -> Chars] : n \in 0..MaxSegLen}

HasDotDot(value) == \E i \in 1..(Len(value) - 1) : value[i] = "." /\ value[i + 1] = "."

HasSlash(value) == \E i \in 1..Len(value) : value[i] = "/"

\* mutant: the ".." test is missing
_validate_path_segment_no_dotdot(value) == ~(value = <<>> \/ HasSlash(value))

\* _validate_path_segment: TRUE when the segment passes, FALSE when it raises 400
_validate_path_segment(value) == ~(value = <<>> \/ HasDotDot(value) \/ HasSlash(value))

\* str.lower() on the words of the model
Lower(s) ==
    CASE s = "HTTP" -> "http"
      [] s = "Https" -> "https"
      [] s = "FTP" -> "ftp"
      [] s = "LOCALHOST" -> "localhost"
      [] s = "Example" -> "example"
      [] OTHER -> s

(***************************************************************************)
(* Hosts.  A host is a dotted sequence of alphabetic labels ("name"), a    *)
(* dotted sequence of decimal numerals ("num") or a bracketed sequence of  *)
(* 16-bit groups ("v6").  urlparse().hostname lower-cases the host and is  *)
(* None (NoHost) when the netloc is empty.                                 *)
(***************************************************************************)
NoHost == [t |-> "name", l |-> <<>>]

hostname(h) == IF h.t = "name" THEN [t |-> "name", l |-> [i \in 1..Len(h.l) |-> Lower(h.l[i])]] ELSE h

\* ipaddress.ip_address(hostname) does not raise ValueError
IsIPv4(h) == h.t = "num" /\ Len(h.l) = 4 /\ \A i \in 1..4 : h.l[i] \in 0..255

IsIPv6(h) == h.t = "v6" /\ Len(h.l) = 8 /\ \A i \in 1..8 : h.l[i] \in 0..65535

\* ipaddress._IPv4Constants._private_networks
V4Private(o) ==
    \/ o[1] = 0
    \/ o[1] = 10
    \/ o[1] = 127
    \/ o[1] = 169 /\ o[2] = 254
    \/ o[1] = 172 /\ o[2] \in 16..31
    \/ o[1] = 192 /\ o[2] = 0 /\ o[3] = 0 /\ o[4] \in 0..7
    \/ o[1] = 192 /\ o[2] = 0 /\ o[3] = 0 /\ o[4] \in 170..171
    \/ o[1] = 192 /\ o[2] = 0 /\ o[3] = 2
    \/ o[1] = 192 /\ o[2] = 168
    \/ o[1] = 198 /\ o[2] \in 18..19
    \/ o[1] = 198 /\ o[2] = 51 /\ o[3] = 100
    \/ o[1] = 203 /\ o[2] = 0 /\ o[3] = 113
    \/ o[1] \in 240..255

V4Loopback(o) == o[1] = 127

V4LinkLocal(o) == o[1] = 169 /\ o[2] = 254

V4Reserved(o) == o[1] \in 240..255

V4Multicast(o) == o[1] \in 224..239

V4Unspecified(o) == \A i \in 1..4 : o[i] = 0

AllZero(g, from, to) == \A i \in from..to : g[i] = 0

\* ipaddress._IPv6Constants._private_networks
V6Private(g) ==
    \/ AllZero(g, 1, 7) /\ g[8] \in {0, 1}
    \/ AllZero(g, 1, 5) /\ g[6] = 65535
    \/ g[1] = 256 /\ AllZero(g, 2, 4)
    \/ g[1] = 8193 /\ g[2] < 512
    \/ g[1] = 8193 /\ g[2] = 3512
    \/ g[1] \in 64512..65023
    \/ g[1] \in 65152..65215

V6Loopback(g) == AllZero(g, 1, 7) /\ g[8] = 1

V6LinkLocal(g) == g[1] \in 65152..65215

\* ipaddress._IPv6Constants._reserved_networks
V6Reserved(g) == g[1] \in 0..8191 \/ g[1] \in 16384..65151

V6Multicast(g) == g[1] \in 65280..65535

V6Unspecified(g) == AllZero(g, 1, 8)

\* _is_blocked_ip
_is_blocked_ip(h) ==
    IF IsIPv4(h)
    THEN \/ V4Private(h.l) \/ V4Loopback(h.l) \/ V4LinkLocal(h.l)
         \/ V4Reserved(h.l) \/ V4Multicast(h.l) \/ V4Unspecified(h.l)
    ELSE IF IsIPv6(h)
    THEN \/ V6Private(h.l) \/ V6Loopback(h.l) \/ V6LinkLocal(h.l)
         \/ V6Reserved(h.l) \/ V6Multicast(h.l) \/ V6Unspecified(h.l)
    ELSE FALSE

\* mutant: only the exact name localhost is refused
IsLocalhostName_exact(h) == h.t = "name" /\ h.l = <<"localhost">>

\* hostname == "localhost" or hostname.endswith(".localhost")
IsLocalhostName(h) == h.t = "name" /\ Len(h.l) >= 1 /\ h.l[Len(h.l)] = "localhost"

\* mutant: the IP literal is not classified
_validate_fetch_url_no_ip_check(u) ==
    LET scheme == Lower(u.scheme)
        host == hostname(u.host)
    IN  /\ scheme \in {"http", "https"}
        /\ host # NoHost
        /\ ~IsLocalhostName(host)

\* _validate_fetch_url: TRUE when the URL passes, FALSE when it raises 400
_validate_fetch_url(u) ==
    LET scheme == Lower(u.scheme)
        host == hostname(u.host)
    IN  /\ scheme \in {"http", "https"}
        /\ host # NoHost
        /\ ~IsLocalhostName(host)
        /\ ~_is_blocked_ip(host)

(***************************************************************************)
(* URLs.  urlparse() yields scheme, hostname, port and path; the path is   *)
(* kept as its literal leading part and the components that follow it.     *)
(***************************************************************************)
NoPort == 0 - 1

Path(prefix, segs) == [prefix |-> prefix, segs |-> segs]

Url(scheme, host, port, path) == [scheme |-> scheme, host |-> host, port |-> port, path |-> path]

Name(labels) == [t |-> "name", l |-> labels]

Num(octets) == [t |-> "num", l |-> octets]

V6(groups) == [t |-> "v6", l |-> groups]

Schemes == {"http", "https", "HTTP", "Https", "ftp", "FTP", "javascript", ""}

NameHosts ==
    { Name(<<>>), Name(<<"localhost">>), Name(<<"LOCALHOST">>), Name(<<"evil", "localhost">>),
      Name(<<"evil", "LOCALHOST">>), Name(<<"localhost", "com">>), Name(<<"notlocalhost">>),
      Name(<<"example", "com">>), Name(<<"Example", "com">>) }

FirstOctets == {0, 8, 10, 100, 127, 169, 172, 192, 198, 203, 224, 239, 240, 255}

SecondOctets == {0, 16, 18, 31, 32, 51, 64, 168, 254}

ThirdOctets == {0, 2, 100, 113}

FourthOctets == {0, 1, 7, 8, 170, 255}

NumHosts ==
    { Num(<<a, b, c, d>>) : a \in FirstOctets, b \in SecondOctets, c \in ThirdOctets, d \in FourthOctets }
    \cup { Num(<<127, 0, 1>>), Num(<<10, 0, 0, 0, 1>>), Num(<<256, 0, 0, 1>>), Num(<<10, 0, 0, 256>>),
           Num(<<2130706433>>) }

V6Hosts ==
    { V6(<<0, 0, 0, 0, 0, 0, 0, 0>>), V6(<<0, 0, 0, 0, 0, 0, 0, 1>>), V6(<<0, 0, 0, 0, 0, 65535, 32512, 1>>),
      V6(<<256, 0, 0, 0, 0, 0, 0, 1>>), V6(<<8193, 0, 0, 0, 0, 0, 0, 1>>), V6(<<8193, 3512, 0, 0, 0, 0, 0, 1>>),
      V6(<<8193, 18528, 18528, 0, 0, 0, 0, 34952>>), V6(<<9734, 18176, 18176, 0, 0, 0, 0, 4369>>),
      V6(<<64512, 0, 0, 0, 0, 0, 0, 1>>), V6(<<65023, 0, 0, 0, 0, 0, 0, 1>>), V6(<<65152, 0, 0, 0, 0, 0, 0, 1>>),
      V6(<<65216, 0, 0, 0, 0, 0, 0, 1>>), V6(<<65282, 0, 0, 0, 0, 0, 0, 1>>), V6(<<16384, 0, 0, 0, 0, 0, 0, 1>>),
      V6(<<8193, 0, 0, 0, 0, 0, 0>>), V6(<<65536, 0, 0, 0, 0, 0, 0, 1>>) }

GuardUrls ==
    { Url(s, h, NoPort, Path("other", <<>>)) : s \in Schemes, h \in NameHosts \cup NumHosts \cup V6Hosts }

(***************************************************************************)
(* Idle values of the variables a harness does not use.                    *)
(***************************************************************************)
NoUrl == Url("", NoHost, NoPort, Path("other", <<>>))

NoCall == [active |-> FALSE, u |-> NoUrl, base |-> NoUrl, io |-> {}]

NoBatch == [active |-> FALSE, ns |-> <<>>, urls |-> <<>>, ids |-> <<>>, io |-> {}]

EmptyMap == [u \in {} |-> 0]

NoResponse ==
    [op |-> "none", status |-> 0, ns |-> <<>>, id |-> <<>>, u |-> NoUrl, base |-> NoUrl, io |-> {},
     count |-> 0, held |-> 0, media_type |-> "", dims |-> <<0, 0>>, urls |-> <<>>, tasks |-> <<>>, ids |-> <<>>,
     result |-> EmptyMap]

NoFetch == [called |-> FALSE]

NoResize == [called |-> FALSE]

(***************************************************************************)
(* The namespace store.  IMAGES_DIR is the directory Root; the namespace   *)
(* "." names IMAGES_DIR itself, every other valid namespace a directory    *)
(* directly below it.  A file is [dir, id, ext].                           *)
(***************************************************************************)
MaxImages == 2

Root == <<>>

DirOf(namespace) == IF namespace = <<".">> THEN Root ELSE namespace

Exts == <<"jpg", "png", "gif", "webp">>

KnownExts == {Exts[i] : i \in 1..Len(Exts)}

\* mutant: the format name is used as the extension
FORMAT_TO_EXT_same(fmt) == fmt

FORMAT_TO_EXT(fmt) ==
    CASE fmt = "jpeg" -> "jpg"
      [] fmt = "png" -> "png"
      [] fmt = "gif" -> "gif"
      [] fmt = "webp" -> "webp"
      [] OTHER -> "jpg"

FORMAT_TO_MEDIA_TYPE(fmt) ==
    CASE fmt \in {"jpeg", "jpg"} -> "image/jpeg"
      [] fmt = "png" -> "image/png"
      [] fmt = "gif" -> "image/gif"
      [] fmt = "webp" -> "image/webp"
      [] OTHER -> "image/jpeg"

\* the file d/id.ext; dims is the size of the image its bytes decode to
File(d, id, ext, dims) == [dir |-> d, id |-> id, ext |-> ext, dims |-> dims]

\* the content of a file whose write did not complete: no decodable image
Truncated == <<0, 0>>

\* image_path.exists()
Exists(fs, d, id, ext) == \E f \in fs : f.dir = d /\ f.id = id /\ f.ext = ext

\* the entries of directory d: its files and, for IMAGES_DIR, the namespace directories
FilesIn(fs, d) == {f \in fs : f.dir = d}

IsEmptyDir(ds, fs, d) == FilesIn(fs, d) = {} /\ (d = Root => ds \subseteq {Root})

\* generate_image_id: the k-th id generated; ids never contain "." or "/"
generate_image_id(k) == [i \in 1..k |-> "a"]

\* _ensure_namespace_dir: mkdir(parents=True, exist_ok=True)
_ensure_namespace_dir(ds, namespace) == ds \cup {Root, DirOf(namespace)}

\* mutant: the last extension under which the id exists
FirstExt_last(fs, namespace, image_id) ==
    LET hits == {i \in 1..Len(Exts) : Exists(fs, DirOf(namespace), image_id, Exts[i])}
    IN  IF hits = {} THEN 0 ELSE CHOOSE i \in hits : \A j \in hits : i >= j

\* get_image_path: the first extension of Exts under which the id exists, 0 when none
FirstExt(fs, namespace, image_id) ==
    LET hits == {i \in 1..Len(Exts) : Exists(fs, DirOf(namespace), image_id, Exts[i])}
    IN  IF hits = {} THEN 0 ELSE CHOOSE i \in hits : \A j \in hits : i <= j

get_image_path(fs, namespace, image_id) ==
    LET i == FirstExt(fs, namespace, image_id)
    IN  IF i = 0 THEN [found |-> FALSE, ext |-> "", media_type |-> "", dims |-> Truncated]
        ELSE [found |-> TRUE, ext |-> Exts[i], media_type |-> FORMAT_TO_MEDIA_TYPE(Exts[i]),
              dims |-> (CHOOSE f \in fs : f.dir = DirOf(namespace) /\ f.id = image_id
                                            /\ f.ext = Exts[i]).dims]

\* mutant: the extension list lacks jpg
Globbed_skips_jpg(fs, namespace) == {f \in FilesIn(fs, DirOf(namespace)) : f.ext \in KnownExts \ {"jpg"}}

\* mutant: the glob matches the files of every directory
Globbed_everywhere(fs, namespace) == {f \in fs : f.ext \in KnownExts}

\* the files delete_namespace_images unlinks: every glob("*.<ext>") match
Globbed(fs, namespace) == {f \in FilesIn(fs, DirOf(namespace)) : f.ext \in KnownExts}

(***************************************************************************)
(* The normalizer.  An image is what PIL decodes from the bytes: a size    *)
(* width x height, or nothing when the bytes are not an image.             *)
(***************************************************************************)
max_upload_size == 1200

max_fetch_size == 800

Img(width, height) == [height |-> height, image |-> TRUE, width |-> width]

NotAnImage == [height |-> 0, image |-> FALSE, width |-> 0]

\* mutant: the quotient rounded up
Scaled_up(short, max_size, long) == (short * max_size + long - 1) \div long

\* int(short * max_size / long): the quotient of positive operands, truncated
Scaled(short, max_size, long) == (short * max_size) \div long

\* mutant: every image is scaled so that its longer side is max_size
NewSize_always(width, height, max_size) ==
    IF width > height THEN <<max_size, Scaled(height, max_size, width)>>
    ELSE <<Scaled(width, max_size, height), max_size>>

\* (new_width, new_height), or img.size when neither side exceeds max_size
NewSize(width, height, max_size) ==
    IF width > max_size \/ height > max_size
    THEN IF width > height THEN <<max_size, Scaled(height, max_size, width)>>
         ELSE <<Scaled(width, max_size, height), max_size>>
    ELSE <<width, height>>

\* Image.open or img.resize raises: not an image, or a requested side below 1
PilRaises(img, max_size) ==
    \/ ~img.image
    \/ \E k \in 1..2 : NewSize(img.width, img.height, max_size)[k] < 1

Failure == [fmt |-> "", ok |-> FALSE, size |-> <<0, 0>>]

\* image_hosting._resize_image: the JPEG of the new size; an exception is Failure
_resize_image(img, max_size) ==
    IF PilRaises(img, max_size) THEN Failure
    ELSE [fmt |-> "jpeg", ok |-> TRUE, size |-> NewSize(img.width, img.height, max_size)]

\* image_fetcher.resize_image seen as sizes: on any exception the bytes come back unchanged
resize_image_size(img, max_size) ==
    IF PilRaises(img, max_size)
    THEN [reencoded |-> FALSE, size |-> <<img.width, img.height>>]
    ELSE [reencoded |-> TRUE, size |-> NewSize(img.width, img.height, max_size)]

\* the request body of an upload: a data: prefix or none, base64 that decodes or
\* not, and the image the decoded bytes hold
Payloads ==
    {[prefixed |-> p, b64ok |-> b, img |-> i] :
        p \in BOOLEAN, b \in BOOLEAN, i \in {NotAnImage, Img(800, 400)}}

\* the disk during a save: "ok", or the call of save_image that raises OSError
Disks == {"ok", "mkdir_fails", "open_fails", "write_fails"}

\* b64decode and _resize_image return
Decodes(payload) == payload.b64ok /\ _resize_image(payload.img, max_upload_size).ok

\* save_image: the id returned (<<>> for None) and the store it leaves.  k ids
\* have been generated before; an id is counted once a file carries it.
save_image(ds, fs, k, namespace, payload, disk) ==
    LET r == _resize_image(payload.img, max_upload_size)
        d == DirOf(namespace)
        image_id == generate_image_id(k + 1)
        ext == FORMAT_TO_EXT(r.fmt)
        made == _ensure_namespace_dir(ds, namespace)
        failed == [image_id |-> <<>>, dirs |-> ds, files |-> fs, nextId |-> k, io |-> {}]
    IN  IF ~Decodes(payload) THEN failed
        ELSE IF disk = "mkdir_fails" THEN failed
        ELSE IF disk = "open_fails" THEN [failed EXCEPT !.dirs = made, !.io = {"mkdir"}]
        ELSE IF disk = "write_fails"
        THEN [image_id |-> <<>>, dirs |-> made, files |-> fs \cup {File(d, image_id, ext, Truncated)},
              nextId |-> k + 1, io |-> {"mkdir", "write"}]
        ELSE [image_id |-> image_id, dirs |-> made, files |-> fs \cup {File(d, image_id, ext, r.size)},
              nextId |-> k + 1, io |-> {"mkdir", "write"}]

(***************************************************************************)
(* The HTTP handlers.  A handler without an await runs as one step.  The   *)
(* model serves one request at a time: a request starts when no other is   *)
(* suspended and the previous response has been sent.  response.io         *)
(* collects the storage and network operations the request performed.      *)
(***************************************************************************)
Idle == ~call.active /\ ~batch.active /\ response.op = "none"

\* the response leaves the handler
SendResponse ==
    /\ response.op # "none"
    /\ response' = NoResponse
    /\ UNCHANGED <<clientVars, url, verdict, dirs, files, nextId, call, batch, pc, sem, result_urls, fetched>>

\* upload_image
Upload(namespace, payload, disk) ==
    /\ Idle
    /\ IF ~_validate_path_segment(namespace)
       THEN /\ response' = [NoResponse EXCEPT !.op = "upload", !.status = 400, !.ns = namespace]
            /\ UNCHANGED <<dirs, files, nextId>>
       ELSE LET saved == save_image(dirs, files, nextId, namespace, payload, disk)
            IN  /\ saved.nextId <= MaxImages
                /\ nextId' = saved.nextId
                /\ dirs' = saved.dirs
                /\ files' = saved.files
                /\ response' = [NoResponse EXCEPT !.op = "upload", !.ns = namespace,
                                                  !.status = IF saved.image_id = <<>> THEN 500 ELSE 200,
                                                  !.id = saved.image_id,
                                                  !.io = saved.io]
    /\ UNCHANGED <<clientVars, url, verdict, call, batch, pc, sem, result_urls, fetched>>

\* get_image
GetImage(namespace, image_id) ==
    /\ Idle
    /\ IF ~_validate_path_segment(namespace) \/ ~_validate_path_segment(image_id)
       THEN response' = [NoResponse EXCEPT !.op = "get", !.status = 400, !.ns = namespace, !.id = image_id]
       ELSE IF ~get_image_path(files, namespace, image_id).found
       THEN response' = [NoResponse EXCEPT !.op = "get", !.status = 404, !.ns = namespace, !.id = image_id,
                                           !.io = {"probe"}]
       ELSE response' = [NoResponse EXCEPT !.op = "get", !.status = 200, !.ns = namespace, !.id = image_id,
                                           !.media_type = get_image_path(files, namespace, image_id).media_type,
                                           !.dims = get_image_path(files, namespace, image_id).dims,
                                           !.io = {"probe", "read"}]
    /\ UNCHANGED <<clientVars, url, verdict, dirs, files, nextId, call, batch, pc, sem, result_urls, fetched>>

\* delete_images, with delete_namespace_images
DeleteImages(namespace) ==
    /\ Idle
    /\ IF ~_validate_path_segment(namespace)
       THEN /\ response' = [NoResponse EXCEPT !.op = "delete", !.status = 400, !.ns = namespace]
            /\ UNCHANGED <<dirs, files>>
       ELSE LET d == DirOf(namespace)
                victims == Globbed(files, namespace)
                left == files \ victims
            IN  IF d \notin dirs
                THEN /\ response' = [NoResponse EXCEPT !.op = "delete", !.status = 200, !.ns = namespace,
                                                       !.io = {"probe"}]
                     /\ UNCHANGED <<dirs, files>>
                ELSE /\ files' = left
                     /\ dirs' = IF IsEmptyDir(dirs, left, d) THEN dirs \ {d} ELSE dirs
                     /\ response' = [NoResponse EXCEPT !.op = "delete", !.status = 200, !.ns = namespace,
                                                       !.count = Cardinality(victims),
                                                       !.held = Cardinality(FilesIn(files, d)),
                                                       !.io = {"probe", "rmdir"} \cup
                                                              (IF victims = {} THEN {} ELSE {"unlink"})]
    /\ UNCHANGED <<clientVars, url, verdict, nextId, call, batch, pc, sem, result_urls, fetched>>

(***************************************************************************)
(* fetch_image.  The upstream answer of client.get is an exception or a    *)
(* response with a status, a declared Content-Length (NoLength when        *)
(* absent), a body of `size` bytes that PIL decodes to `img` or not at     *)
(* all, and the size `encoded` of its JPEG re-encoding.                    *)
(***************************************************************************)
max_fetch_bytes == 10485760

NoLength == 0 - 1

None == [none |-> TRUE, size |-> 0, jpeg |-> FALSE, consumed |-> 0, img |-> NotAnImage]

\* bytes of length `size`; jpeg: they are the re-encoding; img: what they decode to
Bytes(size, jpeg, consumed, img) ==
    [none |-> FALSE, size |-> size, jpeg |-> jpeg, consumed |-> consumed, img |-> img]

Upstream(error, status, declared, size, img, encoded) ==
    [error |-> error, status |-> status, declared |-> declared, size |-> size, img |-> img,
     encoded |-> encoded]

\* resize_image: the JPEG re-encoding, or the bytes unchanged when PIL raises
resize_image(up) ==
    LET r == resize_image_size(up.img, max_fetch_size)
    IN  IF r.reencoded THEN Bytes(up.encoded, TRUE, up.size, Img(r.size[1], r.size[2]))
        ELSE Bytes(up.size, FALSE, up.size, up.img)

\* fetch_image: client.get reads the whole body (response.content)
fetch_image(up) ==
    IF up.error THEN None
    ELSE IF up.status \notin 200..299 THEN [None EXCEPT !.consumed = up.size]
    ELSE resize_image(up)

\* `if not fetched_bytes`: None and b"" are both falsy
Falsy(ret) == ret.none \/ ret.size = 0

ApiUpstreams ==
    { Upstream(TRUE, 0, NoLength, 0, NotAnImage, 0),
      Upstream(FALSE, 404, NoLength, 9, NotAnImage, 0),
      Upstream(FALSE, 200, NoLength, 0, NotAnImage, 0),
      Upstream(FALSE, 200, 9, 9, NotAnImage, 0),
      Upstream(FALSE, 200, 5000, 5000, Img(2000, 1000), 1024) }

(***************************************************************************)
(* POST /fetch.                                                            *)
(***************************************************************************)
\* parsed.port raises ValueError outside 0..65535
PortRaises(u) == u.port > 65535

\* parsed.port or (443 if parsed.scheme.lower() == "https" else 80)
EffectivePort(u) == IF u.port = NoPort \/ u.port = 0 THEN (IF Lower(u.scheme) = "https" THEN 443 ELSE 80) ELSE u.port

\* _INTERNAL_PATH_RE: ^/(?:api/)?images/([^/]+)/([^/]+)$
MatchesInternalPath(path) ==
    /\ path.prefix \in {"images", "api/images"}
    /\ Len(path.segs) = 2
    /\ \A i \in 1..2 : path.segs[i] # <<>> /\ ~HasSlash(path.segs[i])

Local(kind, io) == [kind |-> kind, io |-> io]

\* _try_serve_local: "served", "none" (returns None), "invalid" (raises 400), "error" (ValueError)
_try_serve_local(u, base, fs) ==
    LET h == hostname(u.host)
        bh == hostname(base.host)
        tail ==
            IF ~MatchesInternalPath(u.path) THEN Local("none", {})
            ELSE IF ~_validate_path_segment(u.path.segs[1]) \/ ~_validate_path_segment(u.path.segs[2])
            THEN Local("invalid", {})
            ELSE IF ~get_image_path(fs, u.path.segs[1], u.path.segs[2]).found THEN Local("none", {"probe"})
            ELSE Local("served", {"probe", "read"})
    IN  IF h # NoHost
        THEN IF bh = NoHost THEN Local("none", {})
             ELSE IF h # bh THEN Local("none", {})
             ELSE IF u.scheme # "" /\ base.scheme # "" /\ Lower(u.scheme) # Lower(base.scheme)
             THEN Local("none", {})
             ELSE IF PortRaises(u) \/ PortRaises(base) THEN Local("error", {})
             ELSE IF EffectivePort(u) # EffectivePort(base) THEN Local("none", {})
             ELSE tail
        ELSE tail

\* fetch_external_image up to the await of fetch_image
FetchExternal(u, base) ==
    /\ Idle
    /\ LET local == _try_serve_local(u, base, files)
           done(status, io) == [NoResponse EXCEPT !.op = "fetch", !.status = status, !.u = u,
                                                  !.base = base, !.io = io]
       IN  CASE local.kind = "served" -> response' = done(200, local.io) /\ UNCHANGED call
             [] local.kind = "invalid" -> response' = done(400, local.io) /\ UNCHANGED call
             [] local.kind = "error" -> response' = done(500, local.io) /\ UNCHANGED call
             [] OTHER ->
                    IF ~_validate_fetch_url(u)
                    THEN response' = done(400, local.io) /\ UNCHANGED call
                    ELSE /\ call' = [active |-> TRUE, u |-> u, base |-> base, io |-> local.io \cup {"net"}]
                         /\ response' = NoResponse
    /\ UNCHANGED <<clientVars, url, verdict, dirs, files, nextId, batch, pc, sem, result_urls, fetched>>

\* fetch_external_image from the return of fetch_image
FetchExternalReturn(up) ==
    /\ call.active
    /\ response' = [NoResponse EXCEPT !.op = "fetch", !.u = call.u, !.base = call.base, !.io = call.io,
                                      !.status = IF Falsy(fetch_image(up)) THEN 502 ELSE 200]
    /\ call' = NoCall
    /\ UNCHANGED <<clientVars, url, verdict, dirs, files, nextId, batch, pc, sem, result_urls, fetched>>

(***************************************************************************)
(* POST /{namespace}/proxy.  Each _proxy_one coroutine runs from one await *)
(* to the next as one step: it enters the semaphore, validates and         *)
(* suspends in fetch_image; when fetch_image returns it stores, records    *)
(* the result and leaves the semaphore.                                    *)
(***************************************************************************)
SemCapacity == 5

Terminal == {"rejected", "fetch_failed", "store_failed", "stored"}

\* proxy_images up to asyncio.gather
ProxyStart(namespace, urls) ==
    /\ Idle
    /\ IF ~_validate_path_segment(namespace)
       THEN /\ response' = [NoResponse EXCEPT !.op = "proxy", !.status = 400, !.ns = namespace, !.urls = urls]
            /\ UNCHANGED <<batch, pc, sem, result_urls>>
       ELSE /\ batch' = [active |-> TRUE, ns |-> namespace, urls |-> urls,
                         ids |-> [i \in 1..Len(urls) |-> <<>>], io |-> {}]
            /\ pc' = [i \in 1..Len(urls) |-> "new"]
            /\ sem' = SemCapacity
            /\ result_urls' = EmptyMap
            /\ response' = NoResponse
    /\ UNCHANGED <<clientVars, url, verdict, dirs, files, nextId, call, fetched>>

\* mutant: a coroutine that finds the semaphore locked gives up
Block_rejects(i) ==
    /\ batch.active /\ i \in DOMAIN pc
    /\ pc[i] = "new"
    /\ sem = 0
    /\ pc' = [pc EXCEPT ![i] = "rejected"]
    /\ UNCHANGED <<clientVars, url, verdict, dirs, files, nextId, response, call, batch, sem, result_urls, fetched>>

\* _proxy_one: `async with sem` finds the semaphore locked
Block(i) ==
    /\ batch.active /\ i \in DOMAIN pc
    /\ pc[i] = "new"
    /\ sem = 0
    /\ pc' = [pc EXCEPT ![i] = "waiting"]
    /\ UNCHANGED <<clientVars, url, verdict, dirs, files, nextId, response, call, batch, sem, result_urls, fetched>>

\* mutant: the URL is fetched without being validated
Enter_without_validation(i) ==
    /\ batch.active /\ i \in DOMAIN pc
    /\ pc[i] \in {"new", "waiting"}
    /\ sem > 0
    /\ pc' = [pc EXCEPT ![i] = "fetching"]
    /\ sem' = sem - 1
    /\ batch' = [batch EXCEPT !.io = @ \cup {"net"}]
    /\ UNCHANGED <<clientVars, url, verdict, dirs, files, nextId, response, call, result_urls, fetched>>

\* mutant: the coroutine does not wait for a free slot
Enter_unguarded(i) ==
    /\ batch.active /\ i \in DOMAIN pc
    /\ pc[i] \in {"new", "waiting"}
    /\ IF ~_validate_fetch_url(batch.urls[i])
       THEN /\ pc' = [pc EXCEPT ![i] = "rejected"]
            /\ UNCHANGED <<sem, batch>>
       ELSE /\ pc' = [pc EXCEPT ![i] = "fetching"]
            /\ sem' = sem - 1
            /\ batch' = [batch EXCEPT !.io = @ \cup {"net"}]
    /\ UNCHANGED <<clientVars, url, verdict, dirs, files, nextId, response, call, result_urls, fetched>>

\* _proxy_one: acquires the semaphore, validates the URL and calls fetch_image
Enter(i) ==
    /\ batch.active /\ i \in DOMAIN pc
    /\ pc[i] \in {"new", "waiting"}
    /\ sem > 0
    /\ IF ~_validate_fetch_url(batch.urls[i])
       THEN /\ pc' = [pc EXCEPT ![i] = "rejected"]
            /\ UNCHANGED <<sem, batch>>
       ELSE /\ pc' = [pc EXCEPT ![i] = "fetching"]
            /\ sem' = sem - 1
            /\ batch' = [batch EXCEPT !.io = @ \cup {"net"}]
    /\ UNCHANGED <<clientVars, url, verdict, dirs, files, nextId, response, call, result_urls, fetched>>

\* save_image_bytes: normalize, mkdir, write; None (FALSE) when the bytes do not decode
save_image_bytes_ok(ret) == _resize_image(ret.img, max_upload_size).ok

\* mutant: the dict is rebuilt with the new entry only
Assign_replace(map, key, value) == [k \in {key} |-> value]

\* result_urls[url] = get_image_url(namespace, image_id, base_url)
Assign(map, key, value) == [k \in DOMAIN map \cup {key} |-> IF k = key THEN value ELSE map[k]]

\* _proxy_one from the return of fetch_image to the release of the semaphore
FetchReturn(i, up) ==
    /\ batch.active /\ i \in DOMAIN pc
    /\ pc[i] = "fetching"
    /\ sem' = sem + 1
    /\ LET ret == fetch_image(up)
           image_id == generate_image_id(nextId + 1)
       IN  IF Falsy(ret)
           THEN /\ pc' = [pc EXCEPT ![i] = "fetch_failed"]
                /\ UNCHANGED <<dirs, files, nextId, batch, result_urls>>
           ELSE IF ~save_image_bytes_ok(ret)
           THEN /\ pc' = [pc EXCEPT ![i] = "store_failed"]
                /\ UNCHANGED <<dirs, files, nextId, batch, result_urls>>
           ELSE /\ nextId < MaxImages
                /\ nextId' = nextId + 1
                /\ dirs' = _ensure_namespace_dir(dirs, batch.ns)
                /\ files' = files \cup {File(DirOf(batch.ns), image_id, FORMAT_TO_EXT("jpeg"),
                                               _resize_image(ret.img, max_upload_size).size)}
                /\ result_urls' = Assign(result_urls, batch.urls[i], image_id)
                /\ batch' = [batch EXCEPT !.ids[i] = image_id, !.io = @ \cup {"mkdir", "write"}]
                /\ pc' = [pc EXCEPT ![i] = "stored"]
    /\ UNCHANGED <<clientVars, url, verdict, response, call, fetched>>

\* proxy_images from the return of asyncio.gather
ProxyFinish ==
    /\ batch.active
    /\ \A i \in DOMAIN pc : pc[i] \in Terminal
    /\ response' = [NoResponse EXCEPT !.op = "proxy", !.status = 200, !.ns = batch.ns, !.urls = batch.urls,
                                      !.tasks = pc, !.ids = batch.ids, !.result = result_urls,
                                      !.io = batch.io]
    /\ batch' = NoBatch
    /\ pc' = <<>>
    /\ sem' = 0
    /\ result_urls' = EmptyMap
    /\ UNCHANGED <<clientVars, url, verdict, dirs, files, nextId, call, fetched>>

(***************************************************************************)
(* Inputs of the service harnesses.                                        *)
(***************************************************************************)
MaxMixedUrls == 3

MaxUrls == 6

Localhost == Name(<<"localhost">>)

ExampleCom == Name(<<"example", "com">>)

Bases ==
    { Url("http", Localhost, 8000, Path("other", <<>>)),
      Url("https", ExampleCom, NoPort, Path("other", <<>>)),
      Url("http", Localhost, 70000, Path("other", <<>>)) }

ApiPaths ==
    { Path("other", <<>>), Path("images", <<<<"a">>>>), Path("images", <<<<"a">>, <<"a">>>>),
      Path("images", <<<<".", ".">>, <<"a">>>>), Path("api/images", <<<<"a">>, <<"a", "a">>>>) }

ApiUrls ==
    { Url(s, h, p, path) : s \in {"", "http", "https", "ftp"},
                           h \in {NoHost, Localhost, ExampleCom, Num(<<10, 0, 0, 1>>), Num(<<8, 8, 8, 8>>)},
                           p \in {NoPort, 8000, 70000},
                           path \in ApiPaths }

GoodUrl == Url("https", ExampleCom, NoPort, Path("other", <<>>))

OtherGoodUrl == Url("http", Num(<<8, 8, 8, 8>>), NoPort, Path("other", <<>>))

PrivateUrl == Url("http", Num(<<192, 168, 0, 1>>), NoPort, Path("other", <<>>))

ProxyUrls == {GoodUrl, OtherGoodUrl, PrivateUrl}

ListsUpTo(S, n) == UNION {[1..k -> S] : k \in 0..n}

ApiUrlLists == {<<GoodUrl>>, <<PrivateUrl>>}

ProxyUrlLists == ListsUpTo(ProxyUrls, MaxMixedUrls) \cup ListsUpTo({GoodUrl}, MaxUrls)

ProxyNamespaces == {<<"a">>, <<".", ".">>}

(***************************************************************************)
(* Store harness: the endpoints that take a namespace, over one store.     *)
(***************************************************************************)
ApiInit ==
    /\ url = NoUrl /\ verdict = "pending"
    /\ dirs = {} /\ files = {} /\ nextId = 0
    /\ response = NoResponse /\ call = NoCall /\ batch = NoBatch
    /\ pc = <<>> /\ sem = 0 /\ result_urls = EmptyMap
    /\ fetched = NoFetch
    /\ resized = NoResize /\ _client = 0 /\ clients = <<>> /\ tasks = <<>>

ApiNext ==
    \/ Idle /\ \E namespace \in Segments, payload \in Payloads : Upload(namespace, payload, "ok")
    \/ Idle /\ \E namespace \in Segments, image_id \in Segments : GetImage(namespace, image_id)
    \/ Idle /\ \E namespace \in Segments : DeleteImages(namespace)
    \/ Idle /\ \E namespace \in Segments, urls \in ApiUrlLists : ProxyStart(namespace, urls)
    \/ \E i \in DOMAIN pc : Enter(i)
    \/ \E i \in DOMAIN pc, up \in ApiUpstreams : FetchReturn(i, up)
    \/ ProxyFinish
    \/ SendResponse

SpecApi == ApiInit /\ [][ApiNext]_vars

(***************************************************************************)
(* POST /fetch harness: uploads fill the store, POST /fetch reads it.      *)
(***************************************************************************)
FetchApiNext ==
    \/ Idle /\ \E namespace \in Segments, payload \in Payloads : Upload(namespace, payload, "ok")
    \/ Idle /\ \E u \in ApiUrls, base \in Bases : FetchExternal(u, base)
    \/ call.active /\ \E up \in ApiUpstreams : FetchExternalReturn(up)
    \/ SendResponse

SpecFetchApi == ApiInit /\ [][FetchApiNext]_vars

(***************************************************************************)
(* Bulk proxy harness: batches long enough to fill the semaphore.          *)
(***************************************************************************)
ProxyNext ==
    \/ Idle /\ \E namespace \in ProxyNamespaces, urls \in ProxyUrlLists : ProxyStart(namespace, urls)
    \/ \E i \in DOMAIN pc : Block(i)
    \/ \E i \in DOMAIN pc : Enter(i)
    \/ \E i \in DOMAIN pc, up \in ApiUpstreams : FetchReturn(i, up)
    \/ ProxyFinish
    \/ SendResponse

SpecProxy == ApiInit /\ [][ProxyNext]_vars

(***************************************************************************)
(* Bulk proxy harness for the order of the stages: short batches of        *)
(* accepted and refused URLs, which never fill the semaphore.              *)
(***************************************************************************)
StagesNext ==
    \/ Idle /\ \E namespace \in ProxyNamespaces, urls \in ListsUpTo(ProxyUrls, MaxMixedUrls) :
                ProxyStart(namespace, urls)
    \/ \E i \in DOMAIN pc : Enter(i)
    \/ \E i \in DOMAIN pc, up \in ApiUpstreams : FetchReturn(i, up)
    \/ ProxyFinish
    \/ SendResponse

SpecStages == ApiInit /\ [][StagesNext]_vars

(***************************************************************************)
(* The bulk proxy harness under the event loop's scheduling.  The loop     *)
(* runs every coroutine that is ready: a coroutine that can take a slot    *)
(* of the semaphore is resumed, a fetch that terminates resumes its        *)
(* coroutine, and gather returns once every coroutine is done.  The        *)
(* termination of each fetch is the assumption the second conjunct states. *)
(***************************************************************************)
\* the shortest batch that fills the semaphore and leaves a coroutine waiting
OverCapacity == SemCapacity + 1

FairUrlLists == {[i \in 1..OverCapacity |-> GoodUrl], <<PrivateUrl, GoodUrl>>}

FairUpstreams ==
    { Upstream(TRUE, 0, NoLength, 0, NotAnImage, 0),
      Upstream(FALSE, 200, 5000, 5000, Img(2000, 1000), 1024) }

ProxyFairNext ==
    \/ Idle /\ \E urls \in FairUrlLists : ProxyStart(<<"a">>, urls)
    \/ \E i \in DOMAIN pc : Block(i)
    \/ \E i \in DOMAIN pc : Enter(i)
    \/ \E i \in DOMAIN pc, up \in FairUpstreams : FetchReturn(i, up)
    \/ ProxyFinish
    \/ SendResponse

ProxyFairness ==
    /\ \A i \in 1..OverCapacity : WF_vars(Enter(i))
    /\ \A i \in 1..OverCapacity : WF_vars(\E up \in FairUpstreams : FetchReturn(i, up))
    /\ WF_vars(ProxyFinish)

SpecProxyFair == ApiInit /\ [][ProxyFairNext]_vars /\ ProxyFairness

(***************************************************************************)
(* Fetch harness: fetch_image applied to one upstream answer.              *)
(***************************************************************************)
Upstreams ==
    { Upstream(e, st, d, sz, img, 1024) :
        e \in BOOLEAN, st \in {200, 204, 301, 404, 500},
        d \in {NoLength, 0, 9, max_fetch_bytes, max_fetch_bytes + 1, 999999999},
        sz \in {0, 9, max_fetch_bytes, max_fetch_bytes + 1}, img \in {NotAnImage, Img(2000, 1000)} }

CallFetchImage(up) ==
    /\ fetched' = [called |-> TRUE, up |-> up, ret |-> fetch_image(up)]
    /\ UNCHANGED <<clientVars, url, verdict, dirs, files, nextId, response, call, batch, pc, sem, result_urls>>

FetchNext == \E up \in Upstreams : CallFetchImage(up)

SpecFetch == ApiInit /\ [][FetchNext]_vars

(***************************************************************************)
(* The module-level fetch client.  Coroutines run fetch_image and          *)
(* close_client on one event loop; each runs from one await to the next as *)
(* one step.  get_http_client has no await, so it is part of the step that *)
(* calls it.  Clients are numbered in the order of their construction;     *)
(* clients[c] counts the aclose() calls made on client c.                  *)
(***************************************************************************)
MaxTasks == 3

NoTask == [op |-> "none", pc |-> "idle", client |-> 0, ret |-> "pending", closing |-> FALSE]

\* get_http_client: the client returned and the module state it leaves, or the
\* exception of _build_proxy_pools or of the ProxyHttpClient constructor
get_http_client(current, built, constructs) ==
    IF current # 0 THEN [raised |-> FALSE, client |-> current, clients |-> built]
    ELSE IF ~constructs THEN [raised |-> TRUE, client |-> 0, clients |-> built]
    ELSE [raised |-> FALSE, client |-> Len(built) + 1, clients |-> Append(built, 0)]

\* fetch_image up to the await of client.get; get_http_client is called before the try
FetchStart(t, constructs) ==
    /\ t \in DOMAIN tasks /\ tasks[t].pc = "idle"
    /\ LET got == get_http_client(_client, clients, constructs)
       IN  /\ _client' = got.client
           /\ clients' = got.clients
           /\ tasks' = [tasks EXCEPT ![t] =
                  IF got.raised
                  THEN [op |-> "fetch", pc |-> "done", client |-> 0, ret |-> "raised", closing |-> FALSE]
                  ELSE [op |-> "fetch", pc |-> "requesting", client |-> got.client, ret |-> "pending",
                        closing |-> got.clients[got.client] > 0]]
    /\ UNCHANGED <<serviceVars, resized>>

\* fetch_image from the return of client.get
FetchEnd(t, up) ==
    /\ t \in DOMAIN tasks /\ tasks[t].pc = "requesting"
    /\ tasks' = [tasks EXCEPT ![t].pc = "done",
                              ![t].ret = IF fetch_image(up).none THEN "none" ELSE "bytes"]
    /\ UNCHANGED <<serviceVars, resized, _client, clients>>

\* close_client up to the await of _client.aclose()
CloseStart(t) ==
    /\ t \in DOMAIN tasks /\ tasks[t].pc = "idle"
    /\ IF _client # 0
       THEN /\ clients' = [clients EXCEPT ![_client] = @ + 1]
            /\ tasks' = [tasks EXCEPT ![t] = [op |-> "close", pc |-> "closing", client |-> _client,
                                              ret |-> "pending", closing |-> TRUE]]
       ELSE /\ tasks' = [tasks EXCEPT ![t] = [op |-> "close", pc |-> "done", client |-> 0,
                                              ret |-> "none", closing |-> FALSE]]
            /\ UNCHANGED clients
    /\ UNCHANGED <<serviceVars, resized, _client>>

\* close_client from the return of aclose(): _client = None
CloseEnd(t) ==
    /\ t \in DOMAIN tasks /\ tasks[t].pc = "closing"
    /\ _client' = 0
    /\ tasks' = [tasks EXCEPT ![t].pc = "done", ![t].ret = "none"]
    /\ UNCHANGED <<serviceVars, resized, clients>>

ClientUpstreams ==
    { Upstream(TRUE, 0, NoLength, 0, NotAnImage, 0),
      Upstream(FALSE, 200, 5000, 5000, Img(2000, 1000), 1024) }

ClientInit ==
    /\ url = NoUrl /\ verdict = "pending"
    /\ dirs = {} /\ files = {} /\ nextId = 0
    /\ response = NoResponse /\ call = NoCall /\ batch = NoBatch
    /\ pc = <<>> /\ sem = 0 /\ result_urls = EmptyMap
    /\ fetched = NoFetch /\ resized = NoResize
    /\ _client = 0 /\ clients = <<>>
    /\ tasks = [t \in 1..MaxTasks |-> NoTask]

ClientNext ==
    \/ \E t \in 1..MaxTasks, constructs \in BOOLEAN : FetchStart(t, constructs)
    \/ \E t \in 1..MaxTasks, up \in ClientUpstreams : FetchEnd(t, up)
    \/ \E t \in 1..MaxTasks : CloseStart(t)
    \/ \E t \in 1..MaxTasks : CloseEnd(t)

SpecClient == ClientInit /\ [][ClientNext]_vars

(***************************************************************************)
(* Namespace store harness: uploads of images of several sizes on a disk   *)
(* that may fail, retrievals and namespace deletes.                        *)
(***************************************************************************)
StoreNamespaces == {<<"a">>, <<"a", "a">>, <<".">>}

StorePayloads ==
    {[prefixed |-> p, b64ok |-> b, img |-> i] :
        p \in {FALSE}, b \in BOOLEAN, i \in {NotAnImage, Img(4000, 3000), Img(50, 50), Img(5000, 1)}}
    \cup {[prefixed |-> TRUE, b64ok |-> TRUE, img |-> Img(4000, 3000)]}

StoreIds == {generate_image_id(k) : k \in 1..MaxImages}

StoreNext ==
    \/ Idle /\ \E namespace \in StoreNamespaces, payload \in StorePayloads, disk \in Disks :
                  Upload(namespace, payload, disk)
    \/ Idle /\ \E namespace \in StoreNamespaces, image_id \in StoreIds : GetImage(namespace, image_id)
    \/ Idle /\ \E namespace \in StoreNamespaces : DeleteImages(namespace)
    \/ SendResponse

SpecStore == ApiInit /\ [][StoreNext]_vars

(***************************************************************************)
(* Resolve harness: get_image over a directory tree holding any mix of     *)
(* extensions for the same id.                                             *)
(***************************************************************************)
ResolveFiles ==
    {File(<<"a">>, <<"a">>, e, <<1, 1>>) : e \in KnownExts \cup {"bmp"}}
    \cup {File(<<"a">>, <<"a", "a">>, e, <<1, 1>>) : e \in {"gif", "webp"}}
    \cup {File(Root, <<"a">>, e, <<1, 1>>) : e \in {"png", "webp"}}

ResolveInit ==
    /\ files \in SUBSET ResolveFiles
    /\ dirs = {Root} \cup {f.dir : f \in files}
    /\ url = NoUrl /\ verdict = "pending" /\ nextId = 0
    /\ response = NoResponse /\ call = NoCall /\ batch = NoBatch
    /\ pc = <<>> /\ sem = 0 /\ result_urls = EmptyMap
    /\ fetched = NoFetch
    /\ resized = NoResize /\ _client = 0 /\ clients = <<>> /\ tasks = <<>>

ResolveNext ==
    \/ Idle /\ \E namespace \in StoreNamespaces, image_id \in StoreIds : GetImage(namespace, image_id)
    \/ SendResponse

SpecResolve == ResolveInit /\ [][ResolveNext]_vars

(***************************************************************************)
(* Normalizer harness: both resize functions applied to one image.         *)
(***************************************************************************)
MaxSide == 6

Sides == 1..MaxSide \cup {50, 500, 667, 1000, 2000, 10000}

MaxSizes == 1..MaxSide \cup {100, max_fetch_size, max_upload_size}

\* one call of each normalizer on the same decoded input
Resize(image, width, height, max_size) ==
    /\ ~resized.called
    /\ LET img == IF image THEN Img(width, height) ELSE NotAnImage
       IN  resized' = [called |-> TRUE, img |-> img,
                       lenient |-> resize_image_size(img, max_size),
                       max_size |-> max_size,
                       out |-> _resize_image(img, max_size),
                       requested |-> NewSize(img.width, img.height, max_size)]
    /\ UNCHANGED <<serviceVars, _client, clients, tasks>>

ResizeNext ==
    \/ \E width \in Sides, height \in Sides, m \in MaxSizes : Resize(TRUE, width, height, m)
    \/ \E m \in MaxSizes : Resize(FALSE, 0, 0, m)

SpecResize == ApiInit /\ [][ResizeNext]_vars

(***************************************************************************)
(* Guard harness: _validate_fetch_url applied to one URL.                  *)
(***************************************************************************)
GuardInit ==
    /\ url \in GuardUrls
    /\ verdict = "pending"
    /\ dirs = {} /\ files = {} /\ nextId = 0
    /\ response = NoResponse /\ call = NoCall /\ batch = NoBatch
    /\ pc = <<>> /\ sem = 0 /\ result_urls = EmptyMap
    /\ fetched = NoFetch
    /\ resized = NoResize /\ _client = 0 /\ clients = <<>> /\ tasks = <<>>

Validate ==
    /\ verdict = "pending"
    /\ verdict' = IF _validate_fetch_url(url) THEN "ok" ELSE "rejected"
    /\ UNCHANGED <<clientVars, url, dirs, files, nextId, response, call, batch, pc, sem, result_urls, fetched>>

GuardNext == Validate

SpecGuard == GuardInit /\ [][GuardNext]_vars

(***************************************************************************)
(* C2.  The guard rejects every URL whose scheme is not http or https      *)
(* (case-insensitively), whose hostname is empty, whose hostname is        *)
(* localhost or ends with .localhost, or whose hostname is an IP literal   *)
(* that is private, loopback, link-local, reserved, multicast or           *)
(* unspecified; it accepts every http/https URL whose hostname is a public *)
(* IP literal or an ordinary DNS name.                                     *)
(***************************************************************************)
SchemeIsHttp(u) == u.scheme \in {"http", "https", "HTTP", "Https"}

HostEmpty(u) == Len(u.host.l) = 0

HostIsLocalhost(u) ==
    /\ u.host.t = "name"
    /\ \/ u.host.l \in {<<"localhost">>, <<"LOCALHOST">>}
       \/ Len(u.host.l) > 1 /\ u.host.l[Len(u.host.l)] \in {"localhost", "LOCALHOST"}

IPLiteral(u) == IsIPv4(u.host) \/ IsIPv6(u.host)

IPClassBlocked(u) ==
    \/ /\ IsIPv4(u.host)
       /\ \/ V4Private(u.host.l) \/ V4Loopback(u.host.l) \/ V4LinkLocal(u.host.l)
          \/ V4Reserved(u.host.l) \/ V4Multicast(u.host.l) \/ V4Unspecified(u.host.l)
    \/ /\ IsIPv6(u.host)
       /\ \/ V6Private(u.host.l) \/ V6Loopback(u.host.l) \/ V6LinkLocal(u.host.l)
          \/ V6Reserved(u.host.l) \/ V6Multicast(u.host.l) \/ V6Unspecified(u.host.l)

GuardMustReject(u) ==
    \/ ~SchemeIsHttp(u)
    \/ HostEmpty(u)
    \/ HostIsLocalhost(u)
    \/ IPClassBlocked(u)

GuardMustAccept(u) ==
    /\ SchemeIsHttp(u)
    /\ ~HostEmpty(u)
    /\ \/ IPLiteral(u) /\ ~IPClassBlocked(u)
       \/ ~IPLiteral(u) /\ ~HostIsLocalhost(u)

C2_GuardClassifies ==
    verdict # "pending" =>
        /\ GuardMustReject(url) => verdict = "rejected"
        /\ GuardMustAccept(url) => verdict = "ok"

\* a private IPv4 literal over http has been rejected
C2_Witness ==
    /\ verdict = "rejected"
    /\ url.scheme = "HTTP"
    /\ url.host = Num(<<192, 168, 2, 1>>)

(***************************************************************************)
(* C1.  For every endpoint that takes a namespace or an image id (upload,  *)
(* bulk proxy, retrieve, delete namespace), a value that is empty,         *)
(* contains ".." or contains "/" is rejected with a 400 validation error,  *)
(* and in that request no storage operation and no network fetch has been  *)
(* performed: the response records no I/O and the step leaves the store    *)
(* and the in-flight requests as they were.                                *)
(***************************************************************************)
BadSegment(v) ==
    \/ Len(v) = 0
    \/ \E i \in DOMAIN v : v[i] = "/"
    \/ \E i \in DOMAIN v : i + 1 \in DOMAIN v /\ v[i] = "." /\ v[i + 1] = "."

BadPathRequest(r) ==
    \/ r.op \in {"upload", "proxy", "get", "delete"} /\ BadSegment(r.ns)
    \/ r.op = "get" /\ BadSegment(r.id)

C1_BadSegmentRejected ==
    /\ [](BadPathRequest(response) => response.status = 400 /\ response.io = {})
    /\ [][BadPathRequest(response') => UNCHANGED <<dirs, files, nextId, call, batch, pc, sem, result_urls>>]_vars

\* an upload into ".." was refused while the store held images
C1_Witness ==
    /\ response.op = "upload"
    /\ response.ns = <<".", ".">>
    /\ response.status = 400
    /\ files # {}

(***************************************************************************)
(* C3 as stated.  In POST /fetch, any URL that the guard rejects yields a  *)
(* 400 validation error and no I/O of any kind has happened before the     *)
(* rejection: no outbound network call and no read or probe of the store.  *)
(***************************************************************************)
C3_RejectedBeforeAnyIO ==
    response.op = "fetch" /\ GuardMustReject(response.u) =>
        response.status = 400 /\ response.io = {}

(***************************************************************************)
(* C3 as amended.  In POST /fetch a URL that the guard rejects never       *)
(* causes an outbound network call.  The local shortcut runs before the    *)
(* guard: the store is probed only when the URL's host is absent or is the *)
(* service's own host (same scheme and port) and its path is               *)
(* /images/<namespace>/<id> or /api/images/<namespace>/<id> with valid     *)
(* segments; the request is then answered 200 from the store when the      *)
(* image exists.  A URL on the service's own host whose port, or the       *)
(* service's port, is out of range fails with 500.  Every other rejected   *)
(* URL yields the 400 validation error.                                    *)
(***************************************************************************)
OwnHost(u, base) ==
    \/ HostEmpty(u)
    \/ /\ ~HostEmpty(base)
       /\ hostname(u.host) = hostname(base.host)
       /\ u.scheme = "" \/ base.scheme = "" \/ Lower(u.scheme) = Lower(base.scheme)
       /\ u.port <= 65535 /\ base.port <= 65535
       /\ EffectivePort(u) = EffectivePort(base)

InternalImagePath(u) ==
    /\ u.path.prefix \in {"images", "api/images"}
    /\ Len(u.path.segs) = 2
    /\ ~BadSegment(u.path.segs[1]) /\ ~BadSegment(u.path.segs[2])

C3_RejectedWithoutNetwork ==
    response.op = "fetch" /\ GuardMustReject(response.u) =>
        /\ "net" \notin response.io
        /\ response.io # {} => OwnHost(response.u, response.base) /\ InternalImagePath(response.u)
        /\ \/ response.status = 400
           \/ response.status = 200 /\ response.io = {"probe", "read"}
           \/ /\ response.status = 500 /\ response.io = {}
              /\ response.u.port > 65535 \/ response.base.port > 65535
              /\ hostname(response.u.host) = hostname(response.base.host)

\* a private address that is not the service's own host was refused without any I/O
C3_Witness ==
    /\ response.op = "fetch"
    /\ response.u.host = Num(<<10, 0, 0, 1>>)
    /\ response.u.scheme = "http"
    /\ response.u.path = Path("images", <<<<"a">>, <<"a">>>>)
    /\ response.status = 400
    /\ response.io = {}
    /\ Exists(files, <<"a">>, <<"a">>, "jpg")

(***************************************************************************)
(* C10.  delete_all on a namespace that holds N stored images removes      *)
(* exactly those N files, returns N and removes the now-empty namespace    *)
(* directory; a second delete_all on the same namespace, and delete_all on *)
(* a namespace that never existed, return 0 and never raise.               *)
(***************************************************************************)
DeleteAnswered(r) == r.op = "delete" /\ ~BadSegment(r.ns)

C10_DeleteAll ==
    /\ [](DeleteAnswered(response) => response.status = 200)
    /\ [][DeleteAnswered(response') /\ response.op = "none" =>
            LET d == DirOf(response'.ns)
                held == {f \in files : f.dir = d}
            IN  /\ response'.count = Cardinality(held)
                /\ files' = files \ held
                /\ d # Root => d \notin dirs'
                /\ d = Root /\ dirs \subseteq {Root} => dirs' = {}
                /\ dirs' \subseteq dirs /\ dirs \ dirs' \subseteq {d}
                /\ held = {} => response'.count = 0 /\ files' = files
                /\ d \notin dirs => response'.count = 0 /\ dirs' = dirs]_vars

\* a namespace holding two images was deleted: both files and the directory are gone
C10_Witness ==
    /\ response.op = "delete"
    /\ response.ns = <<"a">>
    /\ response.count = 2
    /\ files = {}
    /\ <<"a">> \notin dirs

(***************************************************************************)
(* C4.  A bulk proxy request over any list of URLs completes with success  *)
(* status, and its result mapping contains exactly the source URLs for     *)
(* which guard, fetch, normalization and store all succeeded, each mapped  *)
(* to its stored image; the mapping's size is the number of such URLs, a   *)
(* failure of one URL never removes another URL's entry, and an empty list *)
(* yields an empty mapping.                                                *)
(***************************************************************************)
\* the tasks of a batch whose image was written
Succeeded(urls, ids, ds, fs, namespace) ==
    {i \in DOMAIN urls : ids[i] # <<>> /\ Exists(fs, DirOf(namespace), ids[i], "jpg")}

MappingIsSuccesses(map, urls, ids, namespace) ==
    LET ok == Succeeded(urls, ids, dirs, files, namespace)
    IN  /\ DOMAIN map = {urls[i] : i \in ok}
        /\ \A u \in DOMAIN map : \E i \in ok : urls[i] = u /\ map[u] = ids[i]
        /\ Cardinality(DOMAIN map) = Cardinality({urls[i] : i \in ok})

InGate == {i \in DOMAIN pc : pc[i] = "fetching"}

C5_AtMostFiveInFlight == batch.active => Cardinality(InGate) <= 5 /\ sem + Cardinality(InGate) = 5

\* five operations hold the gate and a sixth waits for a slot
C5_Witness ==
    /\ batch.active
    /\ Cardinality(InGate) = 5
    /\ \E i \in DOMAIN pc : pc[i] = "waiting"

(***************************************************************************)
(* C9.  A fetch attempt is aborted as a failure when the response declares *)
(* a Content-Length greater than the configured maximum, before any body   *)
(* chunk is consumed, and otherwise as soon as the running total of        *)
(* streamed bytes exceeds the maximum, whatever length was declared; fetch *)
(* never returns a body larger than the configured maximum.                *)
(***************************************************************************)
C9_SizeBounded ==
    fetched.called /\ ~fetched.up.error =>
        /\ fetched.up.declared > max_fetch_bytes => fetched.ret.none /\ fetched.ret.consumed = 0
        /\ fetched.up.size > max_fetch_bytes => fetched.ret.none
        /\ ~fetched.ret.none => fetched.ret.size <= max_fetch_bytes

(***************************************************************************)
(* C13 as stated.  For every input of W x H pixels and every max with      *)
(* W > H and W > max, the normalized image has width max and height        *)
(* round(H * max / W); symmetrically, for H > W and H > max, it has height *)
(* max and width round(W * max / H).                                       *)
(***************************************************************************)
\* round(n / d) of positive integers, ties to the even neighbour
Round(n, d) ==
    LET q == n \div d
        r == n % d
    IN  IF 2 * r < d THEN q
        ELSE IF 2 * r > d THEN q + 1
        ELSE IF q % 2 = 0 THEN q ELSE q + 1

Landscape(r) == r.called /\ r.img.image /\ r.img.width > r.img.height /\ r.img.width > r.max_size

Portrait(r) == r.called /\ r.img.image /\ r.img.height > r.img.width /\ r.img.height > r.max_size

C13_AspectRounded ==
    /\ Landscape(resized) =>
          /\ resized.out.ok
          /\ resized.out.size = <<resized.max_size, Round(resized.img.height * resized.max_size, resized.img.width)>>
    /\ Portrait(resized) =>
          /\ resized.out.ok
          /\ resized.out.size = <<Round(resized.img.width * resized.max_size, resized.img.height), resized.max_size>>

(***************************************************************************)
(* C13 as amended.  For W > H and W > max the requested size is max wide   *)
(* and floor(H * max / W) high: the quotient is truncated, not rounded.    *)
(* When that height is at least 1 both normalizers produce an image of     *)
(* exactly that size; when it is 0 the resize raises, so the upload        *)
(* normalizer fails and the fetch normalizer hands back the original       *)
(* bytes at their original size.  Symmetrically for H > W and H > max.     *)
(***************************************************************************)
\* t = floor(n / d), said without division
IsFloor(t, n, d) == t * d <= n /\ n < (t + 1) * d

TruncatedOutcome(r, long, short, k) ==
    \E t \in 0..r.max_size :
        /\ IsFloor(t, short * r.max_size, long)
        /\ IF t >= 1
           THEN /\ r.out.ok /\ r.out.fmt = "jpeg"
                /\ r.out.size[k] = t /\ r.out.size[3 - k] = r.max_size
                /\ r.lenient.reencoded /\ r.lenient.size = r.out.size
           ELSE /\ ~r.out.ok
                /\ ~r.lenient.reencoded
                /\ r.lenient.size = <<r.img.width, r.img.height>>

C13_AspectTruncated ==
    /\ Landscape(resized) => TruncatedOutcome(resized, resized.img.width, resized.img.height, 2)
    /\ Portrait(resized) => TruncatedOutcome(resized, resized.img.height, resized.img.width, 1)

\* 1000 x 667 at max 800: 533.6 becomes 533
C13_Witness ==
    /\ resized.called
    /\ resized.img = Img(1000, 667)
    /\ resized.max_size = 800
    /\ resized.out.size = <<800, 533>>

(***************************************************************************)
(* C18.  Normalization never upscales and respects the bound: an image     *)
(* with W <= max and H <= max comes out with exactly W x H pixels, and     *)
(* every image the normalizer produces has both sides at most max.         *)
(***************************************************************************)
C18_NeverUpscalesAndBounded ==
    resized.called /\ resized.img.image =>
        /\ resized.img.width <= resized.max_size /\ resized.img.height <= resized.max_size =>
              resized.out.ok /\ resized.out.size = <<resized.img.width, resized.img.height>>
        /\ resized.out.ok =>
              /\ resized.out.size[1] <= resized.max_size
              /\ resized.out.size[2] <= resized.max_size
              /\ resized.out.size[1] <= resized.img.width
              /\ resized.out.size[2] <= resized.img.height

\* a 50 x 50 image under a limit of 100 keeps its size
C18_Witness ==
    /\ resized.called
    /\ resized.img = Img(50, 50)
    /\ resized.max_size = 100
    /\ resized.out.ok
    /\ resized.out.size = <<50, 50>>

(***************************************************************************)
(* C11.  After an upload into a namespace succeeds and returns an id,      *)
(* resolving (namespace, id) finds an existing file of media type          *)
(* image/jpeg whose content is the JPEG re-encoding with both sides at     *)
(* most max_upload_size; the file stays, unchanged, through every later    *)
(* upload and retrieval, and only a delete of its namespace removes it.    *)
(***************************************************************************)
\* the files written by a save that returned their id
Saved(fs) == {f \in fs : f.dims # Truncated}

ResolvesToJpeg(fs, namespace, image_id) ==
    LET r == get_image_path(fs, namespace, image_id)
    IN  /\ r.found
        /\ r.media_type = "image/jpeg"
        /\ r.dims[1] >= 1 /\ r.dims[1] <= max_upload_size
        /\ r.dims[2] >= 1 /\ r.dims[2] <= max_upload_size

C11_SaveResolveRoundTrip ==
    /\ [](response.op = "upload" /\ response.status = 200 =>
            ResolvesToJpeg(files, response.ns, response.id))
    /\ [](\A f \in Saved(files) : \A namespace \in StoreNamespaces :
            DirOf(namespace) = f.dir => ResolvesToJpeg(files, namespace, f.id))
    /\ [](response.op = "get" =>
            \A f \in Saved(files) :
                f.dir = DirOf(response.ns) /\ f.id = response.id =>
                    /\ response.status = 200
                    /\ response.media_type = "image/jpeg"
                    /\ response.dims = f.dims)
    /\ [][\A f \in Saved(files) :
              f \notin files' => response'.op = "delete" /\ DirOf(response'.ns) = f.dir]_vars

\* the first image is served as a 1200 x 900 JPEG after a second image was saved
C11_Witness ==
    /\ response.op = "get"
    /\ response.status = 200
    /\ response.id = <<"a">>
    /\ response.media_type = "image/jpeg"
    /\ response.dims = <<1200, 900>>
    /\ Cardinality(Saved(files)) = 2

(***************************************************************************)
(* C12.  When a save fails at any step (base64 decode, normalization or    *)
(* the file write itself) the upload is answered with the failure status   *)
(* and the files on disk are the same as before the call: no partial or    *)
(* empty image file is left behind.                                        *)
(***************************************************************************)
C12_FailedSaveLeavesNoFile ==
    [][response'.op = "upload" /\ response'.status # 200 => files' = files]_vars

(***************************************************************************)
(* C20.  Resolving (namespace, id) probes the extensions in the order jpg, *)
(* png, gif, webp and answers with the first existing id.<ext> and that    *)
(* extension's media type; when several exist the earliest in that order   *)
(* wins, and when none exists the answer is not-found.                     *)
(***************************************************************************)
Present(r) == {e \in {"jpg", "png", "gif", "webp"} : Exists(files, DirOf(r.ns), r.id, e)}

ExpectedMediaType(present) ==
    IF "jpg" \in present THEN "image/jpeg"
    ELSE IF "png" \in present THEN "image/png"
    ELSE IF "gif" \in present THEN "image/gif"
    ELSE "image/webp"

C20_ResolveOrder ==
    response.op = "get" /\ ~BadSegment(response.ns) /\ ~BadSegment(response.id) =>
        /\ Present(response) = {} => response.status = 404
        /\ Present(response) # {} =>
              response.status = 200 /\ response.media_type = ExpectedMediaType(Present(response))

\* png, gif and webp exist for the id, jpg does not: png is served
C20_Witness ==
    /\ response.op = "get"
    /\ response.ns = <<"a">> /\ response.id = <<"a">>
    /\ Present(response) = {"png", "gif", "webp"}
    /\ response.status = 200
    /\ response.media_type = "image/png"

(***************************************************************************)
(* C14.  fetch_image never raises to its caller: for every outcome of      *)
(* client construction, of the request, of the status check and of         *)
(* normalization it returns bytes or None.                                 *)
(***************************************************************************)
C14_FetchNeverRaises ==
    \A t \in DOMAIN tasks :
        tasks[t].op = "fetch" /\ tasks[t].pc = "done" => tasks[t].ret \in {"bytes", "none"}

(***************************************************************************)
(* C15.  The fetch client is a process-wide singleton: while no shutdown   *)
(* has begun, concurrent first uses construct exactly one client and every *)
(* caller receives it; and under any interleaving of shutdown calls no     *)
(* constructed client receives more than one close.                        *)
(***************************************************************************)
NoCloseBegun == \A t \in DOMAIN tasks : tasks[t].op # "close"

C15_SingletonClosedOnce ==
    /\ NoCloseBegun =>
          /\ Len(clients) <= 1
          /\ \A t \in DOMAIN tasks : tasks[t].pc = "requesting" => tasks[t].client = 1 /\ _client = 1
    /\ \A c \in DOMAIN clients : clients[c] <= 1

(***************************************************************************)
(* C17.  Within a bulk proxy request each URL passes the stages in the     *)
(* order validate, fetch, store: a task starts fetching only from the      *)
(* not-yet-started stages and only when the guard accepted its URL, so a   *)
(* guard-rejected URL is never fetched and never stored; a task reaches    *)
(* the store stages only from the fetch stage; and a file is written only  *)
(* in the step in which a fetching task becomes stored.                    *)
(***************************************************************************)
Started == {"fetching", "fetch_failed", "store_failed", "stored"}

C17_StageOrder ==
    /\ [](batch.active =>
            \A i \in DOMAIN pc :
                GuardMustReject(batch.urls[i]) => pc[i] \notin Started /\ batch.ids[i] = <<>>)
    /\ [](response.op = "proxy" /\ ~BadSegment(response.ns) =>
            \A i \in DOMAIN response.urls :
                /\ GuardMustReject(response.urls[i]) =>
                      response.tasks[i] = "rejected" /\ response.urls[i] \notin DOMAIN response.result
                /\ response.ids[i] # <<>> => response.tasks[i] = "stored")
    /\ [][batch.active /\ batch'.active =>
            /\ \A i \in DOMAIN pc :
                  /\ pc[i] # "fetching" /\ pc'[i] = "fetching" =>
                        pc[i] \in {"new", "waiting"} /\ GuardMustAccept(batch.urls[i])
                  /\ pc[i] # pc'[i] /\ pc'[i] \in {"fetch_failed", "store_failed", "stored"} =>
                        pc[i] = "fetching"
                  /\ pc[i] # pc'[i] /\ pc'[i] = "rejected" =>
                        pc[i] \in {"new", "waiting"} /\ GuardMustReject(batch.urls[i])
            /\ files' # files =>
                  \E i \in DOMAIN pc : pc[i] = "fetching" /\ pc'[i] = "stored"]_vars

\* one URL is stored, one was refused by the guard and one is still being fetched
C17_Witness ==
    /\ batch.active
    /\ \E i \in DOMAIN pc : pc[i] = "stored"
    /\ \E i \in DOMAIN pc : pc[i] = "rejected" /\ batch.urls[i] = PrivateUrl
    /\ \E i \in DOMAIN pc : pc[i] = "fetching"

(***************************************************************************)
(* C19.  In a bulk proxy request a coroutine that finds the semaphore at   *)
(* capacity waits and is never refused for that reason: a waiting          *)
(* coroutine only ever moves on by taking a slot.  Provided every fetch    *)
(* terminates, every URL of the list eventually gets past the semaphore,   *)
(* every slot is back when all coroutines are done, whatever their         *)
(* outcome, and the batch eventually completes with a response.            *)
(***************************************************************************)
NotAdmitted(i) == batch.active /\ i \in DOMAIN pc /\ pc[i] \in {"new", "waiting"}

Admitted(i) == batch.active /\ i \in DOMAIN pc /\ pc[i] \in {"fetching", "rejected"}

C19_WaitersAdmittedAndBatchCompletes ==
    /\ [][batch.active /\ batch'.active =>
            \A i \in DOMAIN pc :
                /\ pc[i] = "new" /\ pc'[i] = "waiting" => sem = 0
                /\ pc[i] \in {"new", "waiting"} /\ pc'[i] \notin {"new", "waiting"} =>
                      /\ sem > 0
                      /\ pc'[i] = (IF GuardMustReject(batch.urls[i]) THEN "rejected" ELSE "fetching")]_vars
    /\ \A i \in 1..OverCapacity : NotAdmitted(i) ~> Admitted(i)
    /\ [](batch.active =>
            sem = SemCapacity - Cardinality({i \in DOMAIN pc : pc[i] = "fetching"}))
    /\ batch.active ~> (~batch.active /\ response.op = "proxy" /\ response.status = 200)

\* a coroutine waits behind a full semaphore
C19_Witness ==
    /\ batch.active /\ sem = 0
    /\ \E i \in DOMAIN pc : pc[i] = "waiting"
    /\ Cardinality({i \in DOMAIN pc : pc[i] = "fetching"}) = SemCapacity

(***************************************************************************)
(* C21.  After a bulk proxy request completes, every image file the        *)
(* request wrote is the target of some entry of the returned mapping,      *)
(* also when the same URL occurs more than once in the list.               *)
(***************************************************************************)
Referenced(id) == \E u \in DOMAIN response.result : response.result[u] = id

C21_EveryStoredImageReferenced ==
    response.op = "proxy" /\ response.status = 200 =>
        \A i \in DOMAIN response.ids :
            response.ids[i] # <<>> =>
                /\ Exists(files, DirOf(response.ns), response.ids[i], FORMAT_TO_EXT("jpeg"))
                /\ Referenced(response.ids[i])

(***************************************************************************)
(* C22.  Whenever the normalizer resizes an image, that is whenever a side *)
(* of the input exceeds max, both sides of the size it asks for are at     *)
(* least 1 pixel, for every input of at least 1 x 1 and every max of at    *)
(* least 1, extreme aspect ratios included.                                *)
(***************************************************************************)
Resizes(r) == r.called /\ r.img.image /\ (r.img.width > r.max_size \/ r.img.height > r.max_size)

C22_TargetAtLeastOnePixel ==
    Resizes(resized) => resized.requested[1] >= 1 /\ resized.requested[2] >= 1

(***************************************************************************)
(* C23.  Under any interleaving of fetch calls with close_client, no fetch *)
(* issues its request on a client whose close has already been started,    *)
(* and a closing call that finishes does not discard a client other than   *)
(* the one it closed.                                                      *)
(***************************************************************************)
RequestsOnClosing(t) == tasks[t].op = "fetch" /\ tasks[t].client # 0 /\ tasks[t].closing

DiscardsOther(t) ==
    /\ tasks[t].pc = "closing" /\ tasks'[t].pc = "done"
    /\ _client # 0 /\ _client # tasks[t].client
    /\ _client' # _client

C23_NoRequestOnClosingClient ==
    /\ [](\A t \in DOMAIN tasks : ~RequestsOnClosing(t))
    /\ [][\A t \in DOMAIN tasks : ~DiscardsOther(t)]_vars

(***************************************************************************)
(* C24.  Store operations on one namespace leave every other namespace     *)
(* unchanged: a delete of namespace A removes no file and no directory     *)
(* outside A's directory, and a save into A keeps every stored file as it  *)
(* was and adds at most one file, in A's directory, at a path no stored    *)
(* file had.                                                               *)
(***************************************************************************)
SamePath(f, g) == f.dir = g.dir /\ f.id = g.id /\ f.ext = g.ext

DeleteFrame(namespace) ==
    /\ \A f \in files : f.dir # DirOf(namespace) => f \in files'
    /\ \A d \in dirs : d # DirOf(namespace) => d \in dirs'
    /\ files' \subseteq files

SaveFrame(namespace) ==
    /\ files \subseteq files'
    /\ Cardinality(files' \ files) <= 1
    /\ \A f \in files' \ files :
          /\ f.dir = DirOf(namespace)
          /\ \A g \in files : ~SamePath(f, g)
    /\ dirs \subseteq dirs'

C24_OtherNamespacesUnchanged ==
    [][/\ response'.op = "delete" => DeleteFrame(response'.ns)
       /\ response'.op = "upload" => SaveFrame(response'.ns)]_vars

\* a delete emptied one namespace while an image of another namespace stayed
C24_Witness ==
    /\ response.op = "delete"
    /\ response.status = 200
    /\ response.count = 1
    /\ \E f \in files : f.dir # DirOf(response.ns)
    /\ FilesIn(files, DirOf(response.ns)) = {}

====
